---- MODULE Spec2Model ----
(***************************************************************************)
(* A model of AttentionGAIN (src/gain.py): the training loop of train(),   *)
(* the forward computation of _attention_map_forward / _forward /          *)
(* _mask_image, and the checkpoint retention of _maybe_save_model.         *)
(*                                                                         *)
(* Three specifications share the module:                                  *)
(*   Spec      the statement-level state machine of train()                *)
(*   SpecSave  calls of _maybe_save_model against a checkpoint directory   *)
(*   SpecFwd   the loss arithmetic of _forward and _mask_image             *)
(***************************************************************************)
EXTENDS Integers, Sequences, FiniteSets, TLC

VARIABLES
    \* ---- the session (AttentionGAIN object) and the train() frame
    pc,                 \* position of the program
    cfg,                \* arguments of __init__ and train(), and the dataset
    epoch,              \* self.epoch
    pretrain_finished,  \* local of train()
    loop,               \* [i, batch, mode, nl, l, m, extra]: loop counters, and
                        \* what the batch's forward call got for extra_super
    grads,              \* the parameters' .grad accumulator: contributions
    slot,               \* [act, grad, read]: self._last_activation, self._last_grad,
                        \* and the last read of the two by the CAM extraction
    events,             \* what the current batch's step has done, in order
    stats,              \* [opt_steps, writer, err]
    \* ---- the checkpoint directory (the file system under saved_model_dir)
    dir,                \* set of file names
    dirExists,          \* os.path.exists(self.saved_model_dir)
    dirBefore,          \* the directory as the last save call found it
    lastCall,           \* the last call of _maybe_save_model and its outcome
    \* ---- pure-function harness
    fwdOut,             \* last result of _forward's loss arithmetic
    maskOut             \* last result of _mask_image

trainVars == <<pc, cfg, epoch, pretrain_finished, loop, grads, slot, events, stats>>
saveVars  == <<dir, dirExists, dirBefore, lastCall>>
fwdVars   == <<fwdOut, maskOut>>
vars      == <<pc, cfg, epoch, pretrain_finished, loop, grads, slot, events, stats,
               dir, dirExists, dirBefore, lastCall, fwdOut, maskOut>>

(***************************************************************************)
(* Bounds                                                                  *)
(***************************************************************************)
MaxEpochs == 4          \* train(): epochs ranges over 1..MaxEpochs, and
                        \* pretrain_epochs and the resumed epoch over 0..MaxEpochs - 1
MaxTrainBatches == 2    \* len(rds.datasets['train']) ranges over 1..
MaxLabels == 2          \* labels per batch range over 1..MaxLabels
MaxSaveEpoch == 2       \* SpecSave: self.epoch ranges over 0..MaxSaveEpoch
MaxSaveCount == 2       \* SpecSave: save_count ranges over 1..MaxSaveCount
MaxLoss == 2            \* SpecFwd: per-label loss values range over 1..MaxLoss
MaxPix == 2             \* SpecFwd: CAM pixel values range over 0..MaxPix

None == <<>>            \* Python None / the empty (falsy) string

(***************************************************************************)
(* File names are sequences of characters. An ASCII character is the       *)
(* one-character string of it; a character outside ASCII is the string of  *)
(* its code point, "U+0663" for ARABIC-INDIC DIGIT THREE.                  *)
(***************************************************************************)
Lower == {"a","b","c","d","e","f","g","h","i","j","k","l","m",
          "n","o","p","q","r","s","t","u","v","w","x","y","z"}
Upper == {"A","B","C","D","E","F","G","H","I","J","K","L","M",
          "N","O","P","Q","R","S","T","U","V","W","X","Y","Z"}
DigitChars == <<"0","1","2","3","4","5","6","7","8","9">>
AsciiDigits == {DigitChars[k] : k \in 1..10}

\* \d of a str pattern is the Unicode category Nd (Unicode 14.0.0): 66 runs of
\* ten code points, each run the digits 0 to 9 of a script, in this order.
DigitScripts == <<
    DigitChars,
    \* arabic-indic
    <<"U+0660", "U+0661", "U+0662", "U+0663", "U+0664",
      "U+0665", "U+0666", "U+0667", "U+0668", "U+0669">>,
    \* extended arabic-indic
    <<"U+06F0", "U+06F1", "U+06F2", "U+06F3", "U+06F4",
      "U+06F5", "U+06F6", "U+06F7", "U+06F8", "U+06F9">>,
    \* nko
    <<"U+07C0", "U+07C1", "U+07C2", "U+07C3", "U+07C4",
      "U+07C5", "U+07C6", "U+07C7", "U+07C8", "U+07C9">>,
    \* devanagari
    <<"U+0966", "U+0967", "U+0968", "U+0969", "U+096A",
      "U+096B", "U+096C", "U+096D", "U+096E", "U+096F">>,
    \* bengali
    <<"U+09E6", "U+09E7", "U+09E8", "U+09E9", "U+09EA",
      "U+09EB", "U+09EC", "U+09ED", "U+09EE", "U+09EF">>,
    \* gurmukhi
    <<"U+0A66", "U+0A67", "U+0A68", "U+0A69", "U+0A6A",
      "U+0A6B", "U+0A6C", "U+0A6D", "U+0A6E", "U+0A6F">>,
    \* gujarati
    <<"U+0AE6", "U+0AE7", "U+0AE8", "U+0AE9", "U+0AEA",
      "U+0AEB", "U+0AEC", "U+0AED", "U+0AEE", "U+0AEF">>,
    \* oriya
    <<"U+0B66", "U+0B67", "U+0B68", "U+0B69", "U+0B6A",
      "U+0B6B", "U+0B6C", "U+0B6D", "U+0B6E", "U+0B6F">>,
    \* tamil
    <<"U+0BE6", "U+0BE7", "U+0BE8", "U+0BE9", "U+0BEA",
      "U+0BEB", "U+0BEC", "U+0BED", "U+0BEE", "U+0BEF">>,
    \* telugu
    <<"U+0C66", "U+0C67", "U+0C68", "U+0C69", "U+0C6A",
      "U+0C6B", "U+0C6C", "U+0C6D", "U+0C6E", "U+0C6F">>,
    \* kannada
    <<"U+0CE6", "U+0CE7", "U+0CE8", "U+0CE9", "U+0CEA",
      "U+0CEB", "U+0CEC", "U+0CED", "U+0CEE", "U+0CEF">>,
    \* malayalam
    <<"U+0D66", "U+0D67", "U+0D68", "U+0D69", "U+0D6A",
      "U+0D6B", "U+0D6C", "U+0D6D", "U+0D6E", "U+0D6F">>,
    \* sinhala lith
    <<"U+0DE6", "U+0DE7", "U+0DE8", "U+0DE9", "U+0DEA",
      "U+0DEB", "U+0DEC", "U+0DED", "U+0DEE", "U+0DEF">>,
    \* thai
    <<"U+0E50", "U+0E51", "U+0E52", "U+0E53", "U+0E54",
      "U+0E55", "U+0E56", "U+0E57", "U+0E58", "U+0E59">>,
    \* lao
    <<"U+0ED0", "U+0ED1", "U+0ED2", "U+0ED3", "U+0ED4",
      "U+0ED5", "U+0ED6", "U+0ED7", "U+0ED8", "U+0ED9">>,
    \* tibetan
    <<"U+0F20", "U+0F21", "U+0F22", "U+0F23", "U+0F24",
      "U+0F25", "U+0F26", "U+0F27", "U+0F28", "U+0F29">>,
    \* myanmar
    <<"U+1040", "U+1041", "U+1042", "U+1043", "U+1044",
      "U+1045", "U+1046", "U+1047", "U+1048", "U+1049">>,
    \* myanmar shan
    <<"U+1090", "U+1091", "U+1092", "U+1093", "U+1094",
      "U+1095", "U+1096", "U+1097", "U+1098", "U+1099">>,
    \* khmer
    <<"U+17E0", "U+17E1", "U+17E2", "U+17E3", "U+17E4",
      "U+17E5", "U+17E6", "U+17E7", "U+17E8", "U+17E9">>,
    \* mongolian
    <<"U+1810", "U+1811", "U+1812", "U+1813", "U+1814",
      "U+1815", "U+1816", "U+1817", "U+1818", "U+1819">>,
    \* limbu
    <<"U+1946", "U+1947", "U+1948", "U+1949", "U+194A",
      "U+194B", "U+194C", "U+194D", "U+194E", "U+194F">>,
    \* new tai lue
    <<"U+19D0", "U+19D1", "U+19D2", "U+19D3", "U+19D4",
      "U+19D5", "U+19D6", "U+19D7", "U+19D8", "U+19D9">>,
    \* tai tham hora
    <<"U+1A80", "U+1A81", "U+1A82", "U+1A83", "U+1A84",
      "U+1A85", "U+1A86", "U+1A87", "U+1A88", "U+1A89">>,
    \* tai tham tham
    <<"U+1A90", "U+1A91", "U+1A92", "U+1A93", "U+1A94",
      "U+1A95", "U+1A96", "U+1A97", "U+1A98", "U+1A99">>,
    \* balinese
    <<"U+1B50", "U+1B51", "U+1B52", "U+1B53", "U+1B54",
      "U+1B55", "U+1B56", "U+1B57", "U+1B58", "U+1B59">>,
    \* sundanese
    <<"U+1BB0", "U+1BB1", "U+1BB2", "U+1BB3", "U+1BB4",
      "U+1BB5", "U+1BB6", "U+1BB7", "U+1BB8", "U+1BB9">>,
    \* lepcha
    <<"U+1C40", "U+1C41", "U+1C42", "U+1C43", "U+1C44",
      "U+1C45", "U+1C46", "U+1C47", "U+1C48", "U+1C49">>,
    \* ol chiki
    <<"U+1C50", "U+1C51", "U+1C52", "U+1C53", "U+1C54",
      "U+1C55", "U+1C56", "U+1C57", "U+1C58", "U+1C59">>,
    \* vai
    <<"U+A620", "U+A621", "U+A622", "U+A623", "U+A624",
      "U+A625", "U+A626", "U+A627", "U+A628", "U+A629">>,
    \* saurashtra
    <<"U+A8D0", "U+A8D1", "U+A8D2", "U+A8D3", "U+A8D4",
      "U+A8D5", "U+A8D6", "U+A8D7", "U+A8D8", "U+A8D9">>,
    \* kayah li
    <<"U+A900", "U+A901", "U+A902", "U+A903", "U+A904",
      "U+A905", "U+A906", "U+A907", "U+A908", "U+A909">>,
    \* javanese
    <<"U+A9D0", "U+A9D1", "U+A9D2", "U+A9D3", "U+A9D4",
      "U+A9D5", "U+A9D6", "U+A9D7", "U+A9D8", "U+A9D9">>,
    \* myanmar tai laing
    <<"U+A9F0", "U+A9F1", "U+A9F2", "U+A9F3", "U+A9F4",
      "U+A9F5", "U+A9F6", "U+A9F7", "U+A9F8", "U+A9F9">>,
    \* cham
    <<"U+AA50", "U+AA51", "U+AA52", "U+AA53", "U+AA54",
      "U+AA55", "U+AA56", "U+AA57", "U+AA58", "U+AA59">>,
    \* meetei mayek
    <<"U+ABF0", "U+ABF1", "U+ABF2", "U+ABF3", "U+ABF4",
      "U+ABF5", "U+ABF6", "U+ABF7", "U+ABF8", "U+ABF9">>,
    \* fullwidth
    <<"U+FF10", "U+FF11", "U+FF12", "U+FF13", "U+FF14",
      "U+FF15", "U+FF16", "U+FF17", "U+FF18", "U+FF19">>,
    \* osmanya
    <<"U+104A0", "U+104A1", "U+104A2", "U+104A3", "U+104A4",
      "U+104A5", "U+104A6", "U+104A7", "U+104A8", "U+104A9">>,
    \* hanifi rohingya
    <<"U+10D30", "U+10D31", "U+10D32", "U+10D33", "U+10D34",
      "U+10D35", "U+10D36", "U+10D37", "U+10D38", "U+10D39">>,
    \* brahmi
    <<"U+11066", "U+11067", "U+11068", "U+11069", "U+1106A",
      "U+1106B", "U+1106C", "U+1106D", "U+1106E", "U+1106F">>,
    \* sora sompeng
    <<"U+110F0", "U+110F1", "U+110F2", "U+110F3", "U+110F4",
      "U+110F5", "U+110F6", "U+110F7", "U+110F8", "U+110F9">>,
    \* chakma
    <<"U+11136", "U+11137", "U+11138", "U+11139", "U+1113A",
      "U+1113B", "U+1113C", "U+1113D", "U+1113E", "U+1113F">>,
    \* sharada
    <<"U+111D0", "U+111D1", "U+111D2", "U+111D3", "U+111D4",
      "U+111D5", "U+111D6", "U+111D7", "U+111D8", "U+111D9">>,
    \* khudawadi
    <<"U+112F0", "U+112F1", "U+112F2", "U+112F3", "U+112F4",
      "U+112F5", "U+112F6", "U+112F7", "U+112F8", "U+112F9">>,
    \* newa
    <<"U+11450", "U+11451", "U+11452", "U+11453", "U+11454",
      "U+11455", "U+11456", "U+11457", "U+11458", "U+11459">>,
    \* tirhuta
    <<"U+114D0", "U+114D1", "U+114D2", "U+114D3", "U+114D4",
      "U+114D5", "U+114D6", "U+114D7", "U+114D8", "U+114D9">>,
    \* modi
    <<"U+11650", "U+11651", "U+11652", "U+11653", "U+11654",
      "U+11655", "U+11656", "U+11657", "U+11658", "U+11659">>,
    \* takri
    <<"U+116C0", "U+116C1", "U+116C2", "U+116C3", "U+116C4",
      "U+116C5", "U+116C6", "U+116C7", "U+116C8", "U+116C9">>,
    \* ahom
    <<"U+11730", "U+11731", "U+11732", "U+11733", "U+11734",
      "U+11735", "U+11736", "U+11737", "U+11738", "U+11739">>,
    \* warang citi
    <<"U+118E0", "U+118E1", "U+118E2", "U+118E3", "U+118E4",
      "U+118E5", "U+118E6", "U+118E7", "U+118E8", "U+118E9">>,
    \* dives akuru
    <<"U+11950", "U+11951", "U+11952", "U+11953", "U+11954",
      "U+11955", "U+11956", "U+11957", "U+11958", "U+11959">>,
    \* bhaiksuki
    <<"U+11C50", "U+11C51", "U+11C52", "U+11C53", "U+11C54",
      "U+11C55", "U+11C56", "U+11C57", "U+11C58", "U+11C59">>,
    \* masaram gondi
    <<"U+11D50", "U+11D51", "U+11D52", "U+11D53", "U+11D54",
      "U+11D55", "U+11D56", "U+11D57", "U+11D58", "U+11D59">>,
    \* gunjala gondi
    <<"U+11DA0", "U+11DA1", "U+11DA2", "U+11DA3", "U+11DA4",
      "U+11DA5", "U+11DA6", "U+11DA7", "U+11DA8", "U+11DA9">>,
    \* mro
    <<"U+16A60", "U+16A61", "U+16A62", "U+16A63", "U+16A64",
      "U+16A65", "U+16A66", "U+16A67", "U+16A68", "U+16A69">>,
    \* tangsa
    <<"U+16AC0", "U+16AC1", "U+16AC2", "U+16AC3", "U+16AC4",
      "U+16AC5", "U+16AC6", "U+16AC7", "U+16AC8", "U+16AC9">>,
    \* pahawh hmong
    <<"U+16B50", "U+16B51", "U+16B52", "U+16B53", "U+16B54",
      "U+16B55", "U+16B56", "U+16B57", "U+16B58", "U+16B59">>,
    \* mathematical bold
    <<"U+1D7CE", "U+1D7CF", "U+1D7D0", "U+1D7D1", "U+1D7D2",
      "U+1D7D3", "U+1D7D4", "U+1D7D5", "U+1D7D6", "U+1D7D7">>,
    \* mathematical double-struck
    <<"U+1D7D8", "U+1D7D9", "U+1D7DA", "U+1D7DB", "U+1D7DC",
      "U+1D7DD", "U+1D7DE", "U+1D7DF", "U+1D7E0", "U+1D7E1">>,
    \* mathematical sans-serif
    <<"U+1D7E2", "U+1D7E3", "U+1D7E4", "U+1D7E5", "U+1D7E6",
      "U+1D7E7", "U+1D7E8", "U+1D7E9", "U+1D7EA", "U+1D7EB">>,
    \* mathematical sans-serif bold
    <<"U+1D7EC", "U+1D7ED", "U+1D7EE", "U+1D7EF", "U+1D7F0",
      "U+1D7F1", "U+1D7F2", "U+1D7F3", "U+1D7F4", "U+1D7F5">>,
    \* mathematical monospace
    <<"U+1D7F6", "U+1D7F7", "U+1D7F8", "U+1D7F9", "U+1D7FA",
      "U+1D7FB", "U+1D7FC", "U+1D7FD", "U+1D7FE", "U+1D7FF">>,
    \* nyiakeng puachue hmong
    <<"U+1E140", "U+1E141", "U+1E142", "U+1E143", "U+1E144",
      "U+1E145", "U+1E146", "U+1E147", "U+1E148", "U+1E149">>,
    \* wancho
    <<"U+1E2F0", "U+1E2F1", "U+1E2F2", "U+1E2F3", "U+1E2F4",
      "U+1E2F5", "U+1E2F6", "U+1E2F7", "U+1E2F8", "U+1E2F9">>,
    \* adlam
    <<"U+1E950", "U+1E951", "U+1E952", "U+1E953", "U+1E954",
      "U+1E955", "U+1E956", "U+1E957", "U+1E958", "U+1E959">>,
    \* segmented
    <<"U+1FBF0", "U+1FBF1", "U+1FBF2", "U+1FBF3", "U+1FBF4",
      "U+1FBF5", "U+1FBF6", "U+1FBF7", "U+1FBF8", "U+1FBF9">>
    >>
Digits == UNION {{DigitScripts[s][k] : k \in 1..10} : s \in 1..Len(DigitScripts)}

\* the class [a-zA-Z0-9-_] of model_file_reg: 0-9 is the ASCII range
TagClass == Lower \cup Upper \cup AsciiDigits \cup {"-", "_"}

SavedModelPrefix == <<"s","a","v","e","d","_","m","o","d","e","l","_">>
DotModel == <<".","m","o","d","e","l">>
ExtOnnx  == <<".","o","n","n","x">>
ExtPyt   == <<".","p","y","t">>
TagDefault == <<"d","e","f","a","u","l","t">>
TagBest    == <<"b","e","s","t">>

\* '%i' of a non-negative integer
RECURSIVE Dec(_)
Dec(n) == IF n < 10 THEN <<DigitChars[n + 1]>>
          ELSE Dec(n \div 10) \o <<DigitChars[(n % 10) + 1]>>

\* the value of a decimal digit of any script
DigitVal(c) == CHOOSE k \in 0..9 :
                   \E s \in 1..Len(DigitScripts) : DigitScripts[s][k + 1] = c

\* int() of a string of decimal digits, of one script or mixed
RECURSIVE ParseInt(_)
ParseInt(s) == IF Len(s) = 0 THEN 0
               ELSE 10 * ParseInt(SubSeq(s, 1, Len(s) - 1)) + DigitVal(s[Len(s)])

\* the length of the longest run of characters of class cls in s from position k
RECURSIVE RunLen(_, _, _)
RunLen(s, k, cls) == IF k <= Len(s) /\ s[k] \in cls
                     THEN 1 + RunLen(s, k + 1, cls) ELSE 0

\* s holds lit at position k
HasAt(s, k, lit) == /\ k + Len(lit) - 1 <= Len(s)
                    /\ SubSeq(s, k, k + Len(lit) - 1) = lit

\* os.path.splitext(p)[-1] of a name without separators: from the last dot on,
\* unless only dots precede it
RECURSIVE LastDotUpTo(_, _)
LastDotUpTo(p, k) == IF k = 0 \/ p[k] = "." THEN k ELSE LastDotUpTo(p, k - 1)
LastDot(p) == LastDotUpTo(p, Len(p))
SplitExt(p) == LET d == LastDot(p) IN
               IF d > 0 /\ \E j \in 1..(d - 1) : p[j] # "."
               THEN SubSeq(p, d, Len(p)) ELSE <<>>

\* model_file_reg.match(name): saved_model_(\d+)_([a-zA-Z0-9-_]+)\.model, anchored
\* at the start only. Both groups are greedy and what follows each cannot be
\* in its class, so each group is the maximal run. The epoch group is a run of
\* decimal digits of any script, the tag's digits are ASCII.
RegMatch(name) ==
    LET p0 == Len(SavedModelPrefix) + 1
        nd == RunLen(name, p0, Digits)
        p1 == p0 + nd
        nt == RunLen(name, p1 + 1, TagClass)
        p2 == p1 + 1 + nt
    IN IF /\ HasAt(name, 1, SavedModelPrefix)
          /\ nd >= 1
          /\ HasAt(name, p1, <<"_">>)
          /\ nt >= 1
          /\ HasAt(name, p2, DotModel)
       THEN [ok |-> TRUE, epoch |-> SubSeq(name, p0, p1 - 1),
             tag |-> SubSeq(name, p1 + 1, p2 - 1)]
       ELSE [ok |-> FALSE, epoch |-> <<>>, tag |-> <<>>]

\* _parse_saved_model_name: ok = FALSE stands for the ValueError it raises
ParseSavedModelName(name) == RegMatch(name)

\* 'saved_model_%i_%s%s' % (self.epoch, tag, extension)
SavedModelFilename(e, tag, extension) ==
    SavedModelPrefix \o Dec(e) \o <<"_">> \o tag \o extension

Extension(serialization) == IF serialization = "onnx" THEN ExtOnnx ELSE ExtPyt

(***************************************************************************)
(* _maybe_save_model                                                       *)
(***************************************************************************)
Tags == {TagDefault, TagBest}
Serializations == {"pth", "onnx"}

\* os.listdir order is unspecified: every ordering of the directory's names
RECURSIVE Orders(_)
Orders(S) == IF S = {} THEN {<<>>}
             ELSE UNION {{<<p>> \o o : o \in Orders(S \ {p})} : p \in S}

ScanStart(e) == [num_models |-> 0, delete_model_path |-> None, max_epoch |-> e]

\* except ValueError: print a warning, continue
OnParseError(acc) == acc

\* if temp_tag != tag: continue
TagMatches(temp_tag, tag) == temp_tag = tag

\* if temp_epoch < max_epoch
IsOlder(temp_epoch, max_epoch) == temp_epoch < max_epoch

\* one iteration of the loop over os.listdir
ScanStep(acc, p, tag, extension) ==
    IF SplitExt(p) # extension THEN acc
    ELSE LET r == ParseSavedModelName(p) IN
         IF ~r.ok THEN OnParseError(acc)
         ELSE IF ~TagMatches(r.tag, tag) THEN acc
         ELSE LET temp_epoch == ParseInt(r.epoch)
                  counted == [acc EXCEPT !.num_models = @ + 1]
              IN IF IsOlder(temp_epoch, acc.max_epoch)
                 THEN [counted EXCEPT !.delete_model_path = p,
                                      !.max_epoch = temp_epoch]
                 ELSE counted

\* the loop over os.listdir
RECURSIVE Scan(_, _, _, _, _)
Scan(acc, ord, k, tag, extension) ==
    IF k > Len(ord) THEN acc
    ELSE Scan(ScanStep(acc, ord[k], tag, extension), ord, k + 1, tag, extension)

\* if num_models < save_count: delete_model_path = None
DeleteCandidate(scan, save_count) ==
    IF scan.num_models < save_count THEN None ELSE scan.delete_model_path

NoCall == [called |-> FALSE, serialization |-> "pth", tag |-> None,
           save_count |-> 0, epoch |-> 0, status |-> "none",
           scanned |-> FALSE, num_models |-> 0, wrote |-> FALSE]

\* What the file system does to one call: nothing, or the OSError of
\* os.makedirs, of os.listdir (the path is not a directory, or the directory
\* is gone or unreadable), of the write (torch.save / torch.onnx.export)
\* before the file exists ("create": the open fails) or after ("write": the
\* file is there, with what was written of it), or of os.remove. The call
\* ends at each of the first four, so one fault per call covers every case.
Faults == {"none", "makedirs", "listdir", "create", "write", "remove"}

\* lines 189-215: the retention scan of the listing ord at epoch e
Retention(e, ord, tag, extension) == Scan(ScanStart(e), ord, 1, tag, extension)

\* The whole of _maybe_save_model on directory d (exists: whether the path
\* exists); scan is what the retention scan of the listing gives, for the
\* calls that get to it. Gives the directory afterwards and how the call
\* ended: os.listdir is in no try, its OSError leaves the call. A write that
\* raises leaves no file or the file it had begun, and for 'pth' ends the call
\* before the removal; for 'onnx' no removal follows in any case.
SaveOutcome(d, exists, e, hasDir, serialization, tag, save_count, scan, fault) ==
    LET call == [called |-> TRUE, serialization |-> serialization, tag |-> tag,
                 save_count |-> save_count, epoch |-> e, status |-> "returned",
                 scanned |-> FALSE, num_models |-> 0, wrote |-> FALSE]
    IN
    IF ~hasDir THEN [dir |-> d, exists |-> exists, call |-> call]
    ELSE IF ~exists /\ fault = "makedirs"
    THEN [dir |-> d, exists |-> exists, call |-> call]
    ELSE IF fault = "listdir"
    THEN [dir |-> d, exists |-> TRUE, call |-> [call EXCEPT !.status = "raised"]]
    ELSE
      LET extension == Extension(serialization)
          del == DeleteCandidate(scan, save_count)
          fname == SavedModelFilename(e, tag, extension)
          scanned == [call EXCEPT !.scanned = TRUE, !.num_models = scan.num_models]
      IN
      IF fault = "create"
      THEN [dir |-> d, exists |-> TRUE, call |-> scanned]
      ELSE IF fault = "write"
      THEN [dir |-> d \cup {fname}, exists |-> TRUE, call |-> scanned]
      ELSE IF serialization = "onnx"
      THEN [dir |-> d \cup {fname}, exists |-> TRUE,
            call |-> [scanned EXCEPT !.wrote = TRUE]]
      ELSE [dir |-> IF del # None /\ fault # "remove"
                    THEN (d \cup {fname}) \ {del} ELSE d \cup {fname},
            exists |-> TRUE,
            call |-> [scanned EXCEPT !.wrote = TRUE]]

\* a call of _maybe_save_model by the session: the listing comes in some
\* order, scan is the one result of the retention scan of it
MaybeSaveModel(serialization, tag, save_count) ==
    \E ord \in Orders(dir) :
        \E scan \in {Retention(epoch, ord, tag, Extension(serialization))} :
        \E fault \in Faults :
            LET out == SaveOutcome(dir, dirExists, epoch, cfg.saved_model_dir # "None",
                                   serialization, tag, save_count, scan, fault)
            IN /\ dir' = out.dir
               /\ dirExists' = out.exists
               /\ dirBefore' = dir
               /\ lastCall' = out.call

(***************************************************************************)
(* SpecSave: a session that saves a checkpoint per epoch, always with the  *)
(* same arguments (as train() does), into a directory that may hold files  *)
(* of other origin.                                                        *)
(***************************************************************************)
Foreign(e, tag) == SavedModelPrefix \o e \o <<"_">> \o tag \o DotModel \o ExtPyt
Notes == <<"n","o","t","e","s",".","p","y","t">>
InitDirs == { {},
              {Foreign(<<"0">>, TagDefault), Foreign(<<"0">>, TagBest)},
              {Foreign(<<"1">>, TagDefault), Foreign(<<"0","1">>, TagDefault)},
              {Foreign(<<"U+0661">>, TagDefault), Foreign(<<"2">>, TagDefault)},
              {Notes} }

IdleTrain ==
    /\ pc = "idle"
    /\ pretrain_finished = FALSE
    /\ loop = [i |-> 0, batch |-> 0, mode |-> "none", nl |-> 0, l |-> 0, m |-> 0,
               extra |-> "unread"]
    /\ grads = <<>>
    /\ slot = [act |-> None, grad |-> None, read |-> [done |-> FALSE]]
    /\ events = <<>>
    /\ stats = [opt_steps |-> 0, writer |-> FALSE, err |-> "none"]

IdleFwd == fwdOut = [status |-> "idle"] /\ maskOut = [status |-> "idle"]

InitSave ==
    /\ IdleTrain /\ IdleFwd
    /\ cfg \in [saved_model_dir : {"None", "set"}, serialization : Serializations,
                tag : Tags, save_count : 1..MaxSaveCount]
    /\ epoch = 0
    /\ dirExists \in BOOLEAN
    /\ dir \in {S \in InitDirs : ~dirExists => S = {}}
    /\ dirBefore = dir
    /\ lastCall = NoCall

\* self.epoch = i: the next epoch of train()
SessionEpoch ==
    /\ epoch < MaxSaveEpoch
    /\ epoch' = epoch + 1
    /\ UNCHANGED <<pc, cfg, pretrain_finished, loop, grads, slot, events, stats>>
    /\ UNCHANGED saveVars /\ UNCHANGED fwdVars

SaveCall ==
    /\ MaybeSaveModel(cfg.serialization, cfg.tag, cfg.save_count)
    /\ UNCHANGED trainVars /\ UNCHANGED fwdVars

NextSave == SessionEpoch \/ SaveCall
SpecSave == InitSave /\ [][NextSave]_vars

(***************************************************************************)
(* Checkpoint retention: C4, C5, C6 (under SpecSave)                       *)
(***************************************************************************)
\* a file this code writes for tag with extension ext, at some epoch
IsCheckpointOf(f, tag, ext) ==
    \E e \in 0..MaxSaveEpoch : f = SavedModelFilename(e, tag, ext)

\* the files of directory d that the retention scan takes for checkpoints of
\* tag: the call's extension, and a name that parses to that tag
Recognised(d, tag, ext) ==
    {f \in d : /\ SplitExt(f) = ext
               /\ ParseSavedModelName(f).ok
               /\ ParseSavedModelName(f).tag = tag}

EpochOf(f) == ParseInt(ParseSavedModelName(f).epoch)

\* C4: after a successful save with tag T and retention count N, by a session
\* that always saves with T and N, the directory holds at most N + 1 of the
\* checkpoints written for tag T.
C4_RetentionBound ==
    (lastCall.called /\ lastCall.wrote) =>
        Cardinality({f \in dir : IsCheckpointOf(f, lastCall.tag,
                                                Extension(lastCall.serialization))})
            <= lastCall.save_count + 1

\* the checkpoints with tag in directory d: the files the code writes for the
\* tag, and the files its retention scan takes for checkpoints of the tag
Checkpoints(d, tag, ext) ==
    {f \in d : IsCheckpointOf(f, tag, ext)} \cup Recognised(d, tag, ext)

\* the epoch in a checkpoint's name
CheckpointEpoch(f, tag, ext) ==
    IF IsCheckpointOf(f, tag, ext)
    THEN CHOOSE e \in 0..MaxSaveEpoch : f = SavedModelFilename(e, tag, ext)
    ELSE EpochOf(f)

\* C5: a call of _maybe_save_model with tag T deletes at most one file; a
\* deleted file is a checkpoint with tag T, and no checkpoint with tag T that
\* was in the directory before the save has a smaller epoch.
C5_EvictsOnlyOldestOfTag ==
    lastCall.called =>
        LET ext == Extension(lastCall.serialization)
            deleted == dirBefore \ dir
            mine == Checkpoints(dirBefore, lastCall.tag, ext)
        IN /\ Cardinality(deleted) <= 1
           /\ \A f \in deleted :
                  /\ f \in mine
                  /\ \A g \in mine : CheckpointEpoch(f, lastCall.tag, ext)
                                         <= CheckpointEpoch(g, lastCall.tag, ext)

\* C6: _maybe_save_model returns normally whatever the file system does, and
\* a name that does not parse is skipped: every file of the call's tag that
\* was in the directory is still counted. (The OSError of os.listdir leaves
\* the call and train().)
C6_SaveNeverRaises ==
    lastCall.called =>
        /\ lastCall.status = "returned"
        /\ lastCall.scanned =>
               lastCall.num_models =
                   Cardinality(Recognised(dirBefore, lastCall.tag,
                                          Extension(lastCall.serialization)))

(***************************************************************************)
(* train() and the forward computation, statement by statement             *)
(***************************************************************************)
SaveCount == 15         \* save_count of the call in train()
TestEvery == {1, 2}     \* test_every_n_epochs
TestBatches == {1}      \* len(rds.datasets['test'])

\* the session's configuration (input_dims, input_channels, labels)
ModelShape == [input_dims |-> 224, input_channels |-> 3, labels |-> "voc"]
Datasets == [output_dims : {224, 112}, output_channels : {3, 1},
             categories : {"voc", "other"}, has_labels_attr : BOOLEAN]

\* _check_dataset_compatability: the exception it raises, or "none". The
\* message of the third branch reads rds.labels, not rds.dataset.categories.
DatasetError(m, rds) ==
    IF rds.output_dims # m.input_dims THEN "ValueError"
    ELSE IF rds.output_channels # m.input_channels THEN "ValueError"
    ELSE IF rds.categories # m.labels
         THEN IF rds.has_labels_attr THEN "ValueError" ELSE "AttributeError"
    ELSE "none"

\* pretrain_finished = pretrain_finished or i > pretrain_epochs
Latch_Premature(pf, i, P) == pf \/ i >= P
Latch(pf, i, P) == pf \/ i > P

\* which loss train() backpropagates
PhaseLoss_AlwaysTotal(pf) == "total_loss"
PhaseLoss(pf) == IF pf THEN "total_loss" ELSE "loss_cl"

\* for label in labels: the loop of _attention_map_forward goes on to the
\* next label, or ends and reaches self.model.zero_grad()
AfterLabel_ZeroEachLabel(l, nl) == "zero_grad"
AfterLabel(l, nl) == IF l < nl THEN "labels" ELSE "zero_grad"

\* self.model.zero_grad() on the accumulated gradients
ZeroGrad_Keeps(g) == g
ZeroGrad(g) == <<>>

\* forward_hook: self._last_activation = output_
ForwardHook(s, at, input) == [s EXCEPT !.act = [at |-> at, input |-> input]]

\* backward_hook: self._last_grad = grad_out[0]
BackwardHook_Unregistered(s, at, from, label) == s
BackwardHook(s, at, from, label) ==
    [s EXCEPT !.grad = [at |-> at, from |-> from, label |-> label]]

\* the reads of self._last_grad and self._last_activation in Eq 1 and Eq 2,
\* for label l of batch at, after the step did the events before
ReadSlot(s, l, at, before) ==
    [s EXCEPT !.read = [done |-> TRUE, act |-> s.act, grad |-> s.grad,
                        label |-> l, at |-> at, before |-> before]]

\* The whole of a forward computation on the session's torch state
\* st = [slot, grads, events], for batch at with nl labels and n mining passes.
\* for label in labels: the backward pass, then the reads of Eq 1 and Eq 2
RECURSIVE LabelLoop(_, _, _, _)
LabelLoop(st, at, l, nl) ==
    IF l >= nl THEN st
    ELSE LET b == [slot |-> BackwardHook(st.slot, at, "cam", l),
                   grads |-> Append(st.grads, [kind |-> "cam", loss |-> "grad_target",
                                               at |-> at]),
                   events |-> Append(st.events, "backward_label")]
             r == [slot |-> ReadSlot(b.slot, l, at, b.events),
                   grads |-> b.grads,
                   events |-> Append(b.events, "cam")]
         IN LabelLoop(r, at, l + 1, nl)

\* _attention_map_forward: self.model(data), the label loop, self.model.zero_grad()
AttentionMapForward(st, at, nl) ==
    LET f == [slot |-> ForwardHook(st.slot, at, "source"),
              grads |-> st.grads,
              events |-> <<"forward">>]
        ls == LabelLoop(f, at, 0, nl)
    IN [slot |-> ls.slot, grads |-> ZeroGrad(ls.grads),
        events |-> Append(ls.events, "zero_grad")]

\* extra_super as train() passes it on: sample['label/truths'] is None, or a
\* list with an entry per label it has a truth for. The session runs on the
\* CPU (gpu = False, the default), where _convert_data_and_label makes a
\* Variable of every entry of a list and leaves None alone.
ExtraSupers == {"None", "list"}

\* What zip(gcams, labels, extra_super) hands an iteration of _forward's loop
\* while a label is left. extra_super = None has become [None] * len(labels):
\* a None per label. A list has ended ("end": the loop stops at the shortest
\* of the three), or has an entry, which is a Variable and so never None: of a
\* mask ("mask"), or of None ("empty": Variable(None) is an empty tensor).
ZipNext(extra) == IF extra = "None" THEN {"None"} ELSE {"end", "mask", "empty"}

\* if (extra is not None): loss_e = ((gcam - extra)**2).sum() raises the
\* RuntimeError of the subtraction for the empty tensor
ExtraError(x) == IF x = "empty" THEN "RuntimeError" ELSE "none"

\* cl_acc = ... == label.max(dim=1)[1]: label is the loop's variable, unbound
\* after a loop of no iteration
AccuracyError(m) == IF m = 0 THEN "UnboundLocalError" ELSE "none"

\* the loop of _forward: self.model(I_star) per iteration
RECURSIVE MineLoop(_, _, _, _)
MineLoop(st, at, m, n) ==
    IF m >= n THEN st
    ELSE MineLoop([slot |-> ForwardHook(st.slot, at, "masked"),
                   grads |-> st.grads,
                   events |-> Append(st.events, "forward_masked")], at, m + 1, n)

\* _forward with n iterations of its loop begun, up to its return or to the
\* exception of line 552 or 555
ForwardState(st, at, nl, n) == MineLoop(AttentionMapForward(st, at, nl), at, 0, n)

\* after the loop of _forward: train() backpropagates for a training batch,
\* and goes on to the sums, the heatmap and the save for a test batch
AfterForward_AlwaysBackprop(mode) == "backprop"
AfterForward(mode) == IF mode = "train" THEN "backprop" ELSE "test_tail"

\* if (i + 1) % test_every_n_epochs == 0
TestDue(i, n) == (i + 1) % n = 0

\* the batch being processed
Here == <<loop.i, loop.mode, loop.batch>>

Init ==
    /\ pc = "constructed"
    /\ cfg \in [pretrain_epochs : 0..(MaxEpochs - 1), epochs : 1..MaxEpochs,
                start : 0..(MaxEpochs - 1), test_every_n_epochs : TestEvery,
                ntrain : 1..MaxTrainBatches, ntest : TestBatches,
                rds : Datasets, saved_model_dir : {"set"}]
    /\ epoch = cfg.start
    /\ pretrain_finished = FALSE
    /\ loop = [i |-> 0, batch |-> 0, mode |-> "none", nl |-> 0, l |-> 0, m |-> 0,
               extra |-> "unread"]
    /\ grads = <<>>
    /\ slot = [act |-> None, grad |-> None, read |-> [done |-> FALSE]]
    /\ events = <<>>
    /\ stats = [opt_steps |-> 0, writer |-> FALSE, err |-> "none"]
    /\ dir = {} /\ dirExists = TRUE /\ dirBefore = {} /\ lastCall = NoCall
    /\ IdleFwd

\* train(), up to the loop: the compatibility check, the writer, the optimizer
TrainEnter ==
    /\ pc = "constructed"
    /\ LET e == DatasetError(ModelShape, cfg.rds) IN
       IF e # "none"
       THEN /\ pc' = "raised"
            /\ stats' = [stats EXCEPT !.err = e]
            /\ UNCHANGED <<pretrain_finished, loop>>
       ELSE /\ pc' = "epoch_head"
            /\ stats' = [stats EXCEPT !.writer = TRUE]
            /\ pretrain_finished' = FALSE
            /\ loop' = [loop EXCEPT !.i = epoch]
    /\ UNCHANGED <<cfg, epoch, grads, slot, events>>
    /\ UNCHANGED saveVars /\ UNCHANGED fwdVars

\* for i in range(self.epoch, epochs): the head of an epoch
EpochHead ==
    /\ pc = "epoch_head"
    /\ IF loop.i < cfg.epochs
       THEN /\ epoch' = loop.i
            /\ pretrain_finished' = Latch(pretrain_finished, loop.i, cfg.pretrain_epochs)
            /\ loop' = [loop EXCEPT !.batch = 0, !.mode = "train"]
            /\ pc' = "forward"
       ELSE /\ pc' = "done"
            /\ UNCHANGED <<epoch, pretrain_finished, loop>>
    /\ UNCHANGED <<cfg, grads, slot, events, stats>>
    /\ UNCHANGED saveVars /\ UNCHANGED fwdVars

\* self.forward(sample['image'], sample['label/onehot'],
\* extra_super=sample['label/truths'], ...) up to output_cl = self.model(data):
\* the forward hook stores the activation
ForwardSource ==
    /\ pc = "forward"
    /\ \E nl \in 1..MaxLabels : \E x \in ExtraSupers :
          /\ loop' = [loop EXCEPT !.nl = nl, !.l = 0, !.m = 0, !.extra = x]
          /\ pc' = AfterLabel(0, nl)
    /\ slot' = ForwardHook(slot, Here, "source")
    /\ events' = <<"forward">>
    /\ UNCHANGED <<cfg, epoch, pretrain_finished, grads, stats>>
    /\ UNCHANGED saveVars /\ UNCHANGED fwdVars

\* grad_target.backward(gradient=..., retain_graph=True): the parameters'
\* gradients accumulate and the backward hook stores the layer's gradient
LabelBackward ==
    /\ pc = "labels"
    /\ loop.l < loop.nl
    /\ grads' = Append(grads, [kind |-> "cam", loss |-> "grad_target", at |-> Here])
    /\ slot' = BackwardHook(slot, Here, "cam", loop.l)
    /\ events' = Append(events, "backward_label")
    /\ pc' = "cam"
    /\ UNCHANGED <<cfg, epoch, pretrain_finished, loop, stats>>
    /\ UNCHANGED saveVars /\ UNCHANGED fwdVars

\* Eq 1, Eq 2: the CAM of the label from the capture slot; loss_cl accumulates
CamExtract ==
    /\ pc = "cam"
    /\ events' = Append(events, "cam")
    /\ loop' = [loop EXCEPT !.l = @ + 1]
    /\ pc' = AfterLabel(loop.l + 1, loop.nl)
    /\ slot' = ReadSlot(slot, loop.l, Here, events)
    /\ UNCHANGED <<cfg, epoch, pretrain_finished, grads, stats>>
    /\ UNCHANGED saveVars /\ UNCHANGED fwdVars

\* self.model.zero_grad(), then _attention_map_forward returns to _forward
ZeroGradStep ==
    /\ pc = "zero_grad"
    /\ grads' = ZeroGrad(grads)
    /\ events' = Append(events, "zero_grad")
    /\ pc' = "mine"
    /\ UNCHANGED <<cfg, epoch, pretrain_finished, loop, slot, stats>>
    /\ UNCHANGED saveVars /\ UNCHANGED fwdVars

\* Eq 3, Eq 5, Eq 7: the loop of _forward, an iteration at a time. The entries
\* of an extra_super list are inputs drawn as zip reaches them. The loop ends
\* when the list has ended or the labels have; _forward then computes cl_acc
\* and returns to train(), or raises for want of an iteration. An iteration
\* makes the masked image and self.model(I_star), then raises on an entry that
\* is an empty tensor. Both exceptions leave train().
Mine ==
    /\ pc = "mine"
    /\ loop.m < loop.nl
    /\ \E x \in ZipNext(loop.extra) :
          IF x = "end"
          THEN /\ IF AccuracyError(loop.m) # "none"
                  THEN /\ pc' = "raised"
                       /\ stats' = [stats EXCEPT !.err = AccuracyError(loop.m)]
                       /\ UNCHANGED loop
                  ELSE /\ pc' = AfterForward(loop.mode)
                       /\ loop' = [loop EXCEPT !.extra = "unread"]
                       /\ UNCHANGED stats
               /\ UNCHANGED <<slot, events>>
          ELSE /\ slot' = ForwardHook(slot, Here, "masked")
               /\ events' = Append(events, "forward_masked")
               /\ IF ExtraError(x) # "none"
                  THEN /\ pc' = "raised"
                       /\ stats' = [stats EXCEPT !.err = ExtraError(x)]
                       /\ loop' = [loop EXCEPT !.m = @ + 1]
                  ELSE /\ pc' = IF loop.m + 1 < loop.nl THEN "mine"
                                ELSE AfterForward(loop.mode)
                       /\ loop' = [loop EXCEPT !.m = @ + 1,
                                               !.extra = IF loop.m + 1 < loop.nl
                                                         THEN @ ELSE "unread"]
                       /\ UNCHANGED stats
    /\ UNCHANGED <<cfg, epoch, pretrain_finished, grads>>
    /\ UNCHANGED saveVars /\ UNCHANGED fwdVars

\* r['total_loss'].backward() or r['loss_cl'].backward()
Backprop ==
    /\ pc = "backprop"
    /\ LET which == PhaseLoss(pretrain_finished) IN
          /\ grads' = Append(grads, [kind |-> "loss", loss |-> which, at |-> Here])
          /\ events' = Append(events, which)
    /\ slot' = BackwardHook(slot, Here, "loss", 0)
    /\ pc' = "opt_step"
    /\ UNCHANGED <<cfg, epoch, pretrain_finished, loop, stats>>
    /\ UNCHANGED saveVars /\ UNCHANGED fwdVars

\* opt.step(), and on to the next training batch or the end of the epoch
OptStep ==
    /\ pc = "opt_step"
    /\ stats' = [stats EXCEPT !.opt_steps = @ + 1]
    /\ events' = Append(events, "opt_step")
    /\ loop' = [loop EXCEPT !.batch = @ + 1]
    /\ pc' = IF loop.batch + 1 < cfg.ntrain THEN "forward" ELSE "epoch_log"
    /\ UNCHANGED <<cfg, epoch, pretrain_finished, grads, slot>>
    /\ UNCHANGED saveVars /\ UNCHANGED fwdVars

\* the epoch's scalars, then: if (i + 1) % test_every_n_epochs == 0
EpochLog ==
    /\ pc = "epoch_log"
    /\ IF TestDue(loop.i, cfg.test_every_n_epochs)
       THEN /\ loop' = [loop EXCEPT !.batch = 0, !.mode = "test"]
            /\ pc' = "forward"
       ELSE /\ loop' = [loop EXCEPT !.i = @ + 1]
            /\ pc' = "epoch_head"
    /\ UNCHANGED <<cfg, epoch, pretrain_finished, grads, slot, events, stats>>
    /\ UNCHANGED saveVars /\ UNCHANGED fwdVars

\* the rest of a test batch: the sums, the heatmap, _maybe_save_model, whose
\* OSError (os.listdir) leaves train()
TestTail ==
    /\ pc = "test_tail"
    /\ MaybeSaveModel("pth", TagDefault, SaveCount)
    /\ IF lastCall'.status = "raised"
       THEN /\ pc' = "raised"
            /\ stats' = [stats EXCEPT !.err = "OSError"]
            /\ UNCHANGED loop
       ELSE /\ loop' = [loop EXCEPT !.batch = @ + 1]
            /\ pc' = IF loop.batch + 1 < cfg.ntest THEN "forward" ELSE "test_log"
            /\ UNCHANGED stats
    /\ UNCHANGED <<cfg, epoch, pretrain_finished, grads, slot, events>>
    /\ UNCHANGED fwdVars

\* the test scalars; the epoch ends
TestLog ==
    /\ pc = "test_log"
    /\ loop' = [loop EXCEPT !.i = @ + 1]
    /\ pc' = "epoch_head"
    /\ UNCHANGED <<cfg, epoch, pretrain_finished, grads, slot, events, stats>>
    /\ UNCHANGED saveVars /\ UNCHANGED fwdVars

Next == \/ TrainEnter \/ EpochHead \/ ForwardSource \/ LabelBackward \/ CamExtract
        \/ ZeroGradStep \/ Mine \/ Backprop \/ OptStep \/ EpochLog \/ TestTail
        \/ TestLog
Spec == Init /\ [][Next]_vars

(***************************************************************************)
(* The training loop: C1, C2, C3, C9, C10 (under Spec)                     *)
(***************************************************************************)
InEpoch == pc \in {"forward", "labels", "cam", "zero_grad", "mine", "backprop",
                   "opt_step", "epoch_log", "test_tail", "test_log"}

Count(seq, S) == Cardinality({k \in 1..Len(seq) : seq[k] \in S})
IsLossBackward(e) == e \in {"loss_cl", "total_loss"}

\* C1: when the optimizer is about to step for a training batch of epoch i,
\* exactly one loss has been backpropagated for the batch: loss_cl if
\* i <= pretrain_epochs, total_loss if i > pretrain_epochs. No other state
\* comes before an optimizer step: a batch whose forward computation raised
\* has left train() with no loss backpropagated and no optimizer step.
C1_PhaseSelectsLoss ==
    /\ pc = "opt_step" =>
           /\ loop.mode = "train"
           /\ SelectSeq(events, IsLossBackward) =
                  <<IF epoch <= cfg.pretrain_epochs THEN "loss_cl" ELSE "total_loss">>
           /\ Count(events, {"opt_step"}) = 0
    /\ Count(events, {"opt_step"}) > 0 =>
           /\ Count(events, {"opt_step"}) = 1
           /\ events[Len(events)] = "opt_step"
           /\ IsLossBackward(events[Len(events) - 1])
    /\ pc = "raised" => Count(events, {"loss_cl", "total_loss", "opt_step"}) = 0

\* the optimizer is about to step on total_loss in the first epoch after
\* pretraining, having stepped on loss_cl before
C1_Witness ==
    /\ pc = "opt_step"
    /\ epoch = cfg.pretrain_epochs + 1
    /\ epoch > cfg.start
    /\ stats.opt_steps >= 1
    /\ SelectSeq(events, IsLossBackward) = <<"total_loss">>

\* C2: pretrain_finished is false when train() starts, holds in an epoch
\* exactly when the epoch's index is greater than pretrain_epochs, and once
\* true stays true.
C2_LatchOneWay ==
    /\ [](pc = "constructed" => ~pretrain_finished)
    /\ [](InEpoch => (pretrain_finished <=> epoch > cfg.pretrain_epochs))
    /\ [][pretrain_finished => pretrain_finished']_vars

\* a resumed run in its second epoch after the flag flipped, at the head of a
\* still later pass
C2_Witness ==
    /\ InEpoch /\ pretrain_finished
    /\ cfg.start > 0
    /\ cfg.start <= cfg.pretrain_epochs
    /\ epoch > cfg.pretrain_epochs + 1

\* the dataset has the session's dimensions, channel count and label set
Compatible(m, rds) ==
    /\ rds.output_dims = m.input_dims
    /\ rds.output_channels = m.input_channels
    /\ rds.categories = m.labels

\* C3: a dataset that matches the session is accepted (the check raises
\* nothing); one that mismatches is rejected at session construction, so no
\* constructed session stands before it, and the rejection is the
\* dataset-incompatibility error, raised before any forward pass, gradient,
\* optimizer step or metrics writer exists.
C3_RejectedAtConstruction ==
    IF Compatible(ModelShape, cfg.rds)
    THEN stats.err \notin {"ValueError", "AttributeError"}
    ELSE /\ pc # "constructed"
         /\ pc = "raised" /\ stats.err = "ValueError"
         /\ events = <<>> /\ grads = <<>> /\ slot.act = None
         /\ stats.opt_steps = 0 /\ ~stats.writer

\* C9: within a batch's step the gradients are cleared at most once; the
\* clearing follows the CAM extraction of the last label (all nl backward
\* passes and extractions are before it), precedes every forward pass on a
\* masked image, every loss backward pass and the optimizer step, and has
\* happened once the mining passes start.
C9_ZeroGradOnceAfterLastLabel ==
    LET Z == {k \in 1..Len(events) : events[k] = "zero_grad"} IN
    /\ Cardinality(Z) <= 1
    /\ \A k \in Z :
          /\ events[k - 1] = "cam"
          /\ Count(SubSeq(events, 1, k), {"backward_label"}) = loop.nl
          /\ Count(SubSeq(events, 1, k), {"cam"}) = loop.nl
          /\ Count(SubSeq(events, 1, k),
                   {"forward_masked", "loss_cl", "total_loss", "opt_step"}) = 0
          /\ Count(SubSeq(events, k, Len(events)), {"backward_label", "cam"}) = 0
    /\ pc \in {"mine", "backprop", "opt_step", "test_tail"} => Cardinality(Z) = 1
    /\ Count(events, {"forward_masked", "loss_cl", "total_loss", "opt_step"}) > 0
           => Cardinality(Z) = 1

\* a batch with two labels: both CAMs extracted, the gradients cleared, the
\* mining passes and the optimizer step done
C9_Witness ==
    /\ loop.nl = 2
    /\ events = <<"forward", "backward_label", "cam", "backward_label", "cam",
                  "zero_grad", "forward_masked", "forward_masked", "total_loss",
                  "opt_step">>

\* C10: when the optimizer is about to step, the gradient accumulator holds
\* one contribution: the backward pass of the phase-selected loss of the
\* batch being processed.
C10_StepSeesOnlyBatchLoss ==
    pc = "opt_step" =>
        grads = <<[kind |-> "loss", loss |-> PhaseLoss(pretrain_finished), at |-> Here]>>

\* the optimizer is about to step for a two-label batch whose list of truths
\* ended after one mining pass, after an earlier step and an evaluation pass
C10_Witness ==
    /\ pc = "opt_step"
    /\ loop.nl = 2
    /\ Count(events, {"forward_masked"}) = 1
    /\ stats.opt_steps >= 1
    /\ lastCall.called
    /\ Len(grads) = 1

(***************************************************************************)
(* SpecFwd: the arithmetic of _forward and _mask_image on one input.       *)
(* Losses are whole numbers of an arbitrary unit; a CAM is a sequence of   *)
(* pixel values; the normalised CAM is in tenths, masks and images are in  *)
(* thousandths. A float is [nan, v]: NaN, or the finite value v.           *)
(***************************************************************************)
Alpha == 1              \* default of alpha
Omega == 10             \* default of omega
SigmaTenths == 5        \* default of sigma, 0.5, in tenths
Pixels == 2             \* pixels of a CAM in SpecFwd

Fin(v) == [nan |-> FALSE, v |-> v]
NaN == [nan |-> TRUE, v |-> 0]

RECURSIVE SumTo(_, _)
SumTo(f, n) == IF n = 0 THEN 0 ELSE SumTo(f, n - 1) + f[n]

Min2(a, b) == IF a < b THEN a ELSE b
SeqMin(q) == CHOOSE x \in {q[k] : k \in 1..Len(q)} : \A k \in 1..Len(q) : x <= q[k]
SeqMax(q) == CHOOSE x \in {q[k] : k \in 1..Len(q)} : \A k \in 1..Len(q) : x >= q[k]

\* the labels of a batch: per label the classification loss self.loss_cl gives
\* and the mining loss F.sigmoid(...) gives (a sigmoid is positive)
LabelLosses == [cl : 1..MaxLoss, am : 1..MaxLoss]
\* an entry of an extra_super list: None, or a mask whose squared distance to
\* the CAM is e
Extras == {[given |-> FALSE, e |-> 0], [given |-> TRUE, e |-> MaxLoss]}

SeqsUpTo(S, n) == UNION {[1..k -> S] : k \in 0..n}

ForwardInputs ==
    UNION {[alpha : {Alpha, Alpha + 1}, omega : {Omega}, labels : [1..nl -> LabelLosses],
            extra_none : {FALSE}, extra_super : SeqsUpTo(Extras, nl + 1)]
           \cup
           [alpha : {Alpha, Alpha + 1}, omega : {Omega}, labels : [1..nl -> LabelLosses],
            extra_none : {TRUE}, extra_super : {<<>>}]
           : nl \in 1..MaxLabels}

\* _convert_data_and_label on the CPU: extra_super = None stays None, and each
\* entry of a list becomes a Variable, that of a None entry an empty tensor.
\* _forward then makes [None] * len(labels) of None (lines 534-535).
ConvertExtra(x) == IF x.given THEN [kind |-> "mask", e |-> x.e]
                   ELSE [kind |-> "empty", e |-> 0]
ExtraList(in) ==
    IF in.extra_none THEN [k \in 1..Len(in.labels) |-> [kind |-> "None", e |-> 0]]
    ELSE [k \in 1..Len(in.extra_super) |-> ConvertExtra(in.extra_super[k])]

\* the loop runs over zip(gcams, labels, extra_super): as often as the
\* shortest is long, unless an iteration raises
ZipLen(in) == Min2(Len(in.labels), Len(ExtraList(in)))

\* the iteration that raises at line 552: the first whose entry is an empty
\* tensor; 0 if there is none
FirstEmpty(in) ==
    LET xs == ExtraList(in)
        bad == {k \in 1..ZipLen(in) : ExtraError(xs[k].kind) # "none"}
    IN IF bad = {} THEN 0 ELSE CHOOSE k \in bad : \A j \in bad : k <= j

\* the iterations of the loop that begin, and so pass I_star through the model
MiningPasses(in) == IF FirstEmpty(in) > 0 THEN FirstEmpty(in) ELSE ZipLen(in)

\* _forward's result: the names loss_am and label are bound by the loop's
\* last iteration alone, loss_e by the last iteration that has a mask
ForwardLosses(in) ==
    LET nl == Len(in.labels)
        xs == ExtraList(in)
        n == ZipLen(in)
        loss_cl == SumTo([k \in 1..nl |-> in.labels[k].cl], nl)
        mined == SumTo([k \in 1..n |-> in.alpha * in.labels[k].am], n)
        extra == SumTo([k \in 1..n |-> IF xs[k].kind = "mask" THEN in.omega * xs[k].e
                                       ELSE 0], n)
        given == {k \in 1..n : xs[k].kind = "mask"}
        raised == [status |-> "ok", in |-> in, total_loss |-> 0, loss_cl |-> 0,
                   loss_am |-> 0, loss_e |-> 0]
    IN IF FirstEmpty(in) > 0
       THEN [raised EXCEPT !.status = ExtraError("empty")]
       ELSE IF AccuracyError(n) # "none"
       THEN [raised EXCEPT !.status = AccuracyError(n)]
       ELSE [status |-> "ok", in |-> in,
             total_loss |-> loss_cl + mined + extra,
             loss_cl |-> loss_cl,
             loss_am |-> in.labels[n].am,
             loss_e |-> IF given = {} THEN 0
                        ELSE xs[CHOOSE k \in given : \A j \in given : j <= k].e]

\* F.sigmoid of a whole argument, in thousandths
SigmoidMilli(x) ==
    IF x <= -5 THEN 7 ELSE IF x = -4 THEN 18 ELSE IF x = -3 THEN 47
    ELSE IF x = -2 THEN 119 ELSE IF x = -1 THEN 269 ELSE IF x = 0 THEN 500
    ELSE IF x = 1 THEN 731 ELSE IF x = 2 THEN 881 ELSE IF x = 3 THEN 953
    ELSE IF x = 4 THEN 982 ELSE 993

\* x / y of floats: 0 / 0 is NaN; the scaled value is in tenths
ScaleDiv(x, y) == IF y = 0 THEN NaN ELSE Fin((10 * x) \div y)

\* the denominator of the min-max normalisation
Denominator(gcam_min, gcam_max) == gcam_max - gcam_min

MaskInputs == [gcam : [1..Pixels -> 0..MaxPix], image : [1..Pixels -> {0, 1000}]]

\* _mask_image
MaskImage(in) ==
    LET gcam_min == SeqMin(in.gcam)
        gcam_max == SeqMax(in.gcam)
        denom == Denominator(gcam_min, gcam_max)
        scaled == [k \in 1..Len(in.gcam) |-> ScaleDiv(in.gcam[k] - gcam_min, denom)]
        mask == [k \in 1..Len(in.gcam) |->
                    IF scaled[k].nan THEN NaN
                    ELSE Fin(SigmoidMilli((Omega * (scaled[k].v - SigmaTenths)) \div 10))]
        masked == [k \in 1..Len(in.gcam) |->
                    IF mask[k].nan THEN NaN
                    ELSE Fin(in.image[k] - (in.image[k] * mask[k].v) \div 1000)]
    IN [status |-> "ok", in |-> in, denom |-> denom,
        scaled_gcam |-> scaled, masked_image |-> masked]

IdleSave == /\ dir = {} /\ dirExists = TRUE /\ dirBefore = {} /\ lastCall = NoCall

InitFwd ==
    /\ IdleTrain /\ IdleSave
    /\ cfg = [saved_model_dir |-> "None"]
    /\ epoch = 0
    /\ \/ /\ fwdOut \in [status : {"pending"}, in : ForwardInputs]
          /\ maskOut = [status |-> "idle"]
       \/ /\ fwdOut = [status |-> "idle"]
          /\ maskOut \in [status : {"pending"}, in : MaskInputs]

\* forward(data, label, extra_super): _convert_data_and_label, then _forward:
\* the losses it returns or the exception it raises, and what its passes
\* through the model leave in the capture slot and the gradients
CallForward ==
    /\ fwdOut.status = "pending"
    /\ fwdOut' = ForwardLosses(fwdOut.in)
    /\ LET st == ForwardState([slot |-> slot, grads |-> grads, events |-> events],
                              Here, Len(fwdOut.in.labels), MiningPasses(fwdOut.in))
       IN /\ slot' = st.slot
          /\ grads' = st.grads
          /\ events' = st.events
    /\ UNCHANGED <<pc, cfg, epoch, pretrain_finished, loop, stats>>
    /\ UNCHANGED maskOut /\ UNCHANGED saveVars

CallMaskImage ==
    /\ maskOut.status = "pending"
    /\ maskOut' = MaskImage(maskOut.in)
    /\ UNCHANGED fwdOut /\ UNCHANGED trainVars /\ UNCHANGED saveVars

NextFwd == CallForward \/ CallMaskImage
SpecFwd == InitFwd /\ [][NextFwd]_vars

\* C7: when forward is given no ground-truth mask, the total_loss it returns
\* is loss_cl + alpha * loss_am of the same result, whatever the number of labels.
C7_TotalIsClPlusAlphaAm ==
    (/\ fwdOut.status = "ok"
     /\ \A k \in 1..Len(fwdOut.in.extra_super) : ~fwdOut.in.extra_super[k].given)
        => fwdOut.total_loss = fwdOut.loss_cl + fwdOut.in.alpha * fwdOut.loss_am

\* C8: the min-max normalisation of _mask_image never divides by zero, and
\* the normalised map and the masked image are finite.
C8_NoDivisionByZero ==
    maskOut.status = "ok" =>
        /\ maskOut.denom # 0
        /\ \A k \in 1..Len(maskOut.in.gcam) :
               ~maskOut.scaled_gcam[k].nan /\ ~maskOut.masked_image[k].nan

(***************************************************************************)
(* The capture slot and the evaluation pass: C11, C12 (under Spec)         *)
(***************************************************************************)
\* C11: whenever the CAM extraction of a label has read the capture slot, the
\* activation it read is that of the batch's own forward pass on the source
\* image and the gradient is that of the label's own backward pass; the
\* step had done one forward pass, the backward passes of the labels up to
\* this one, the last thing being this label's backward pass, and no
\* gradient clearing, no forward pass on a masked image, no loss backward
\* pass and no optimizer step before the read.
C11_SlotReadOnlyWhenValid ==
    slot.read.done =>
        LET r == slot.read IN
        /\ r.act = [at |-> r.at, input |-> "source"]
        /\ r.grad = [at |-> r.at, from |-> "cam", label |-> r.label]
        /\ Len(r.before) >= 2
        /\ r.before[1] = "forward"
        /\ r.before[Len(r.before)] = "backward_label"
        /\ Count(r.before, {"forward"}) = 1
        /\ Count(r.before, {"backward_label"}) = r.label + 1
        /\ Count(r.before, {"zero_grad", "forward_masked", "loss_cl",
                            "total_loss", "opt_step"}) = 0

\* the second label of a test batch has read the slot, after training batches
\* whose masked forward passes and loss backward passes had overwritten it
C11_Witness ==
    /\ slot.read.done
    /\ slot.read.label = 1
    /\ slot.read.at[2] = "test"
    /\ stats.opt_steps >= 2

\* C12: an evaluation pass starts at the end of epoch i exactly when i + 1 is
\* a multiple of test_every_n_epochs, and no step of it backpropagates a loss
\* or steps the optimizer: the count of optimizer steps, which alone change
\* the parameters and the optimizer's state, is the same after every step.
C12_EvalPassChangesNothing ==
    /\ [][pc = "epoch_log" =>
            ((pc' = "forward" /\ loop'.mode = "test")
                <=> ((loop.i + 1) % cfg.test_every_n_epochs = 0))]_vars
    /\ [][loop.mode = "test" =>
            /\ stats'.opt_steps = stats.opt_steps
            /\ pc' \notin {"backprop", "opt_step"}
            /\ Count(events', {"loss_cl", "total_loss", "opt_step"}) = 0]_vars

\* an evaluation pass of a two-label test batch, whose list of truths ended
\* after one mining pass, is over, save included, in a run that has stepped
\* the optimizer for every training batch so far
C12_Witness ==
    /\ pc = "test_log"
    /\ loop.mode = "test"
    /\ loop.nl = 2
    /\ Count(events, {"forward_masked"}) = 1
    /\ lastCall.called
    /\ cfg.test_every_n_epochs = 2
    /\ stats.opt_steps = (loop.i - cfg.start + 1) * cfg.ntrain
    /\ stats.opt_steps >= 2

====
